---- MODULE Spec2Model ----
(***************************************************************************)
(* Insurance star-schema ETL (Assessment 3): dimension upsert with         *)
(* surrogate keys, fact resolution and fact loading, as sequenced by       *)
(* InsuranceETLPipeline.run_pipeline.                                      *)
(*                                                                         *)
(* The persisted store is SQL Server: dim_customer, dim_policy, dim_agent  *)
(* (IDENTITY primary key, UNIQUE business key), dim_date and fact_claims   *)
(* (UNIQUE claim_id, foreign keys to the four dimensions).  db is the      *)
(* committed store, tx the view of the connection that is open (equal to   *)
(* db when none is).  Each loader opens its own connection with            *)
(* autocommit off and commits in _cleanup_connection.                      *)
(*                                                                         *)
(* The loaders read their input lists strictly left to right, so the       *)
(* model draws the length of a list when the loop over it starts and each  *)
(* record when the loop reaches it.                                        *)
(*                                                                         *)
(* Spec     run_pipeline, run after run: every dimension list holds one    *)
(*          record (which may fail on persistence), the claims are         *)
(*          arbitrary.                                                     *)
(* SpecDim  load_all_dimensions, call after call, with arbitrary records   *)
(*          (and per-record failures) in the list of one dimension and     *)
(*          empty lists for the other two.                                 *)
(* SpecFacts     load_all_facts, call after call, on a warehouse whose     *)
(*               dimensions hold one row, with the Directory as argument.  *)
(* SpecResolve   one call of _resolve_surrogate_keys.                      *)
(* SpecTransform the transformer's loops over raw claims, and the load of  *)
(*               the fact records it returns.                              *)
(* SpecRI        validate_fact_referential_integrity on any warehouse.     *)
(* SpecBook      the BookHaven pipeline (Assessment 4), run after run.     *)
(***************************************************************************)
EXTENDS Integers, Sequences, FiniteSets, TLC

\* ---------------------------------------------------------------- bounds
MaxRuns == 2        \* runs (calls) against the same warehouse
MaxRecs == 2        \* records of the dimension list in SpecDim
MaxClaims == 2      \* claims in one run
MaxIdent == 3       \* cap on the IDENTITY counters
MaxFactRows == 1    \* fact rows of a warehouse given to the validator
MaxRaw == 2         \* raw claims given to the transformer

\* ---------------------------------------------------------------- domains
DimNames == {"dim_customer", "dim_policy", "dim_agent"}
DimOrder == <<"dim_customer", "dim_policy", "dim_agent">>
BKeys == {"K1", "K2"}
Attrs == {"a", "b"}
ClaimIds == {"CLM1", "CLM2"}
BatchSizes == {1, 2}
\* Python None where a date key is expected
None == -9999
\* the date keys dim_date holds after setup
DateDim == {20240315}
\* the date keys a run may ask validate_date_dimension about
DateKeyInputs == {20240315, 20990101}
FiledKeys == {None, 0, 20240315, 20990101}
ClosedKeys == {None, 0, -1, 20240315, 20990101}

DimRecords == [bk : BKeys, attr : Attrs]
PipelineDimRecords == [bk : {"K1"}, attr : {"a"}]
\* a claim: its business keys, and what is read once they resolve (the date
\* keys, and whether the INSERT then raises)
ClaimRefs == [claim_id : ClaimIds, customer_id : BKeys, policy_id : BKeys,
              agent_id : BKeys]
ClaimRest == [filed_date_key : FiledKeys, closed_date_key : ClosedKeys,
              dbfail : BOOLEAN]
NoRest == [filed_date_key |-> None, closed_date_key |-> None, dbfail |-> FALSE]
\* the amounts (in thousandths) of the claims whose amounts play no part
PlainAmounts == [claim_amount |-> 5000, coverage_amount |-> 10000]

VARIABLES
    db,              \* committed store: [dims, facts]
    tx,              \* store as seen by the open connection
    ident,           \* IDENTITY counter of each dimension table (never rolled back)
    pc,              \* position of run_pipeline
    run,             \* runs started so far
    result,          \* outcome of the run: "none", "ok", "failed"
    batch_size,      \* config.batch_size of the run
    d,               \* index in DimOrder of the dimension being loaded
    n,               \* length of the list being processed
    i,               \* records of that list processed so far
    batch_keys,      \* surrogate_keys of _process_*_batch (current chunk)
    surrogate_keys,  \* surrogate_keys of load_*_dimension
    mappings,        \* surrogate_key_mappings of load_all_dimensions
    existing_claims, \* existing_claims of load_claims_facts
    stats,           \* stats of load_claims_facts
    batch_stats,     \* batch_stats of _process_claims_batch (current chunk)
    succeeded,       \* history: business keys inserted or updated in the current list
    nfailed,         \* history: records of the current list whose processing failed
    dimsLoaded,      \* history: dimension tables whose load_*_dimension call returned
    lookup_ok,       \* history: _get_existing_claim_ids read the fact table
    lastOp,          \* history: the record of the last loop iteration and its outcome
    cursor,          \* self.cursor of an InsuranceFactLoader: "none", "open", "closed"
    ri,              \* what validate_fact_referential_integrity returned and logged
    bh_pc,           \* position of the BookHaven etl_pipeline.main
    bh_runs,         \* BookHaven runs started so far
    bh_k,            \* index in BHTables of the next load_dimension_table call
    bh_dims,         \* BookHaven dimension tables: rows [id, key]
    bh_ident,        \* key generators of the BookHaven dimension tables
    bh_orders,       \* orders frame after transform_orders
    bh_facts,        \* fact_book_sales
    bh_inserted,     \* books_inserted, authors_inserted, ... of main
    bh_outcome,      \* how main ended: "none", "completed" or the message raised
    bh_failed,       \* history: a load function caught an exception in this run
    arg,             \* arguments of a function called on its own
    ret              \* what that call returned

vars == <<db, tx, ident, pc, run, result, batch_size, d, n, i, batch_keys,
          surrogate_keys, mappings, existing_claims, stats, batch_stats, dimsLoaded,
          succeeded, nfailed, lookup_ok, lastOp, cursor, ri,
          bh_pc, bh_runs, bh_k, bh_dims, bh_ident, bh_orders, bh_facts,
          bh_inserted, bh_outcome, bh_failed, arg, ret>>

dimVars == <<batch_keys, surrogate_keys, mappings, succeeded, nfailed, dimsLoaded>>
factVars == <<existing_claims, stats, batch_stats, lookup_ok>>
riVars == <<cursor, ri>>
bhVars == <<bh_pc, bh_runs, bh_k, bh_dims, bh_ident, bh_orders, bh_facts,
            bh_inserted, bh_outcome, bh_failed>>
fnVars == <<arg, ret>>
auxVars == <<riVars, bhVars, fnVars>>
insVars == <<db, tx, ident, pc, run, result, batch_size, d, n, i, dimVars,
             factVars, lastOp, fnVars>>

\* A Python dict from business keys to surrogate keys; 0 marks an absent key.
EmptyDict == [k \in BKeys |-> 0]
EmptyMappings == [dn \in DimNames |-> EmptyDict]
DictKeys(m) == {k \in BKeys : m[k] # 0}
\* mutant: the chunk's keys replace the mapping (surrogate_keys = batch_keys)
UpdateReplaces(m, other) == other

\* dict.update
Update(m, other) == [k \in BKeys |-> IF other[k] # 0 THEN other[k] ELSE m[k]]

Counters == {"total_processed", "successfully_loaded", "failed_validation",
             "duplicate_claims"}
ZeroStats == [c \in Counters |-> 0]

NoOp == [kind |-> "none"]
DimOp(kind, dn, rec, key, valid) ==
    [kind |-> kind, dim |-> dn, bk |-> rec.bk, attr |-> rec.attr, key |-> key,
     valid |-> valid]
FactOp(kind, claim) ==
    [kind |-> kind, claim_id |-> claim.claim_id, customer_id |-> claim.customer_id,
     policy_id |-> claim.policy_id, agent_id |-> claim.agent_id]

EmptyStore == [dims |-> [dn \in DimNames |-> {}], dates |-> DateDim, facts |-> {}]

\* SELECT <dim>_key FROM <dim> WHERE <dim>_id = ?
Existing(store, dn, bk) == {r \in store.dims[dn] : r.bk = bk}

\* The UPDATE statement of the dimension executes.  dim_policy's UPDATE lacks
\* the comma between "premium_tier = ?" and "deductible = ?": SQL Server
\* rejects it, the except clause of the record loop swallows the error.
UpdateExecutes(dn) == dn # "dim_policy"

\* mutant: the upsert replaces the row (delete and insert), which hands the
\* business key a fresh identity value
UpdatedRowReinserted(old, rec) == [bk |-> old.bk, key |-> old.key + 1, attr |-> rec.attr]

\* UPDATE <dim> SET <attributes> WHERE <dim>_id = ?  (the key column is not set)
UpdatedRow(old, rec) == [bk |-> old.bk, key |-> old.key, attr |-> rec.attr]

\* Whether the record loop stores business key -> surrogate key after an
\* UPDATE.  In the customer and policy loops the assignment sits inside the
\* else (insert) branch; in the agent loop it follows the if/else.
RecordsKeyOnUpdate(dn) == dn = "dim_agent"

\* mutant: the update branch records a fresh identity value
KeyAfterUpdateFresh(dn, old) == ident[dn] + 1

\* agent_key = existing[0]: the key the update branch records is the one the
\* SELECT before the UPDATE returned
KeyAfterUpdate(dn, old) == old.key

\* mutant: the key is computed as row count + 1 instead of by the identity
NextIdentityByCount(dn) == Cardinality(tx.dims[dn]) + 1

\* SELECT @@IDENTITY after an INSERT into an IDENTITY(1,1) table
NextIdentity(dn) == ident[dn] + 1

\* the validator has not been called
NoResult == [called |-> FALSE]

\* BookHaven: the dimension tables in the order main loads them, and the
\* fact table
BHTables == <<"dim_book", "dim_author", "dim_customer", "dim_date">>
BHFactTable == "fact_book_sales"
\* business ids of BookHaven entities (isbn, author name, customer_id, date)
BHEntities == 1..2
\* the frames main passes to load_dimension_table: any set of books, one
\* fixed frame for each other table
BHFrames(table) == IF table = "dim_book" THEN SUBSET BHEntities ELSE {{1}}
\* a variable of main that has no value yet
Unset == -1

\* the BookHaven warehouse right after the star schema was created
InitBookHaven ==
    /\ bh_pc = "idle"
    /\ bh_runs = 0
    /\ bh_k = 1
    /\ bh_dims = [k \in 1..Len(BHTables) |-> {}]
    /\ bh_ident = [k \in 1..Len(BHTables) |-> 0]
    /\ bh_orders = {}
    /\ bh_facts = {}
    /\ bh_inserted = [k \in 1..(Len(BHTables) + 1) |-> Unset]
    /\ bh_outcome = "none"
    /\ bh_failed = FALSE

\* no function has been called on its own
NoArg == [fn |-> "none"]
NotCalled == [called |-> FALSE]

\* no run has started; the fact loader object is fresh
InitLoaders ==
    /\ InitBookHaven
    /\ cursor = "none"
    /\ ri = NoResult
    /\ pc = "idle"
    /\ run = 0
    /\ result = "none"
    /\ batch_size = 1
    /\ n = 0
    /\ i = 0
    /\ batch_keys = EmptyDict
    /\ surrogate_keys = EmptyDict
    /\ mappings = EmptyMappings
    /\ existing_claims = {}
    /\ stats = ZeroStats
    /\ batch_stats = ZeroStats
    /\ succeeded = {}
    /\ nfailed = 0
    /\ dimsLoaded = {}
    /\ lookup_ok = TRUE
    /\ lastOp = NoOp

InitProcess ==
    /\ InitLoaders
    /\ arg = NoArg
    /\ ret = NotCalled

InitCommon ==
    /\ db = EmptyStore
    /\ tx = EmptyStore
    /\ InitProcess

\* the warehouse right after setup_star_schema: empty tables
Init ==
    /\ InitCommon
    /\ ident = [dn \in DimNames |-> 0]
    /\ d = 1

\* empty tables, for calls that carry records of dimension DimOrder[d] only
InitDim ==
    /\ InitCommon
    /\ ident = [dn \in DimNames |-> 0]
    /\ d \in 1..Len(DimOrder)

\* load_all_dimensions up to the first record of the first list:
\* _connect_to_database succeeds.
StartRun(lens) ==
    /\ pc = "idle"
    /\ run < MaxRuns
    /\ run' = run + 1
    /\ pc' = "dims"
    /\ \E b \in BatchSizes : batch_size' = b
    /\ \E len \in lens : n' = len
    /\ UNCHANGED <<auxVars, db, tx, ident, result, d, i, dimVars, factVars, lastOp>>

\* a fatal error of a load phase: "connect_failed" or "commit_failed"
FatalOp(kind, phase) == [kind |-> kind, phase |-> phase]

\* mutant: run_pipeline reports success whatever happened
PipelineOutcomeAlwaysOk(raised) == "ok"

\* run_pipeline: return True at the end of the try block; an exception sets
\* pipeline_stats["success"] = False and returns False
PipelineOutcome(raised) == IF raised THEN "failed" ELSE "ok"

\* main: sys.exit(0 if success else 1)
ExitStatus(outcome) == IF outcome = "ok" THEN 0 ELSE 1

\* _connect_to_database raises ConnectionError: load_all_dimensions re-raises
\* (connection is None, nothing to roll back), run_pipeline returns False.
ConnectFailDims ==
    /\ pc = "idle"
    /\ run < MaxRuns
    /\ run' = run + 1
    /\ pc' = "done"
    /\ result' = PipelineOutcome(TRUE)
    /\ lastOp' = FatalOp("connect_failed", "dimensions")
    /\ UNCHANGED <<auxVars, db, tx, ident, batch_size, d, n, i, dimVars, factVars>>

\* The chunk ends after this record: the loop of load_* takes the next slice
ChunkEnds == (i + 1) % batch_size = 0 \/ i + 1 = n

\* surrogate_keys.update(batch_keys) at the end of a chunk
AfterRecord(keys) ==
    /\ i' = i + 1
    /\ IF ChunkEnds
       THEN /\ surrogate_keys' = Update(surrogate_keys, keys)
            /\ batch_keys' = EmptyDict
       ELSE /\ batch_keys' = keys
            /\ UNCHANGED surrogate_keys

\* One iteration of the record loop of _process_customer_batch,
\* _process_policy_batch or _process_agent_batch.  fails: the INSERT/UPDATE
\* (or the SELECT before it) raises for this record; burn: the failed INSERT
\* had already consumed an identity value.
DimRecord(rec, fails, burn) ==
    LET dn == DimOrder[d]
        ex == Existing(tx, dn, rec.bk)
    IN
    /\ pc = "dims"
    /\ i < n
    /\ IF ex # {}
       THEN LET old == CHOOSE r \in ex : TRUE IN
            IF fails \/ ~UpdateExecutes(dn)
            THEN \* exception: warning, continue
                 /\ AfterRecord(batch_keys)
                 /\ nfailed' = nfailed + 1
                 /\ lastOp' = DimOp("failed", dn, rec, 0, ~fails)
                 /\ UNCHANGED <<tx, ident, succeeded>>
            ELSE /\ tx' = [tx EXCEPT !.dims[dn] =
                               (@ \ ex) \cup {UpdatedRow(r, rec) : r \in ex}]
                 /\ AfterRecord(IF RecordsKeyOnUpdate(dn)
                                THEN [batch_keys EXCEPT ![rec.bk] = KeyAfterUpdate(dn, old)]
                                ELSE batch_keys)
                 /\ succeeded' = succeeded \cup {rec.bk}
                 /\ lastOp' = DimOp("updated", dn, rec, old.key, TRUE)
                 /\ UNCHANGED <<ident, nfailed>>
       ELSE /\ ident[dn] < MaxIdent
            /\ IF fails
               THEN /\ AfterRecord(batch_keys)
                    /\ ident' = [ident EXCEPT ![dn] = IF burn THEN NextIdentity(dn) ELSE @]
                    /\ nfailed' = nfailed + 1
                    /\ lastOp' = DimOp("failed", dn, rec, 0, FALSE)
                    /\ UNCHANGED <<tx, succeeded>>
               ELSE /\ tx' = [tx EXCEPT !.dims[dn] =
                                  @ \cup {[bk |-> rec.bk, key |-> NextIdentity(dn),
                                           attr |-> rec.attr]}]
                    /\ ident' = [ident EXCEPT ![dn] = NextIdentity(dn)]
                    /\ AfterRecord([batch_keys EXCEPT ![rec.bk] = NextIdentity(dn)])
                    /\ succeeded' = succeeded \cup {rec.bk}
                    /\ lastOp' = DimOp("inserted", dn, rec, NextIdentity(dn), TRUE)
                    /\ UNCHANGED nfailed
    /\ UNCHANGED <<auxVars, db, pc, run, result, batch_size, d, n, mappings, dimsLoaded, factVars>>

\* mutant: load_all_dimensions stops after the policies
MoreDimsButAgent(k) == k < 2

\* load_all_dimensions has a further load_*_dimension call after the k-th
MoreDims(k) == k < Len(DimOrder)

\* load_*_dimension returns and load_all_dimensions stores its mapping; then
\* the next list, or the cleanup after the last one.  single: the lists of
\* the other dimensions are empty, their loads return {} and touch nothing.
EndDim(single, lens) ==
    /\ pc = "dims"
    /\ i = n
    /\ mappings' = [mappings EXCEPT ![DimOrder[d]] = surrogate_keys]
    /\ i' = 0
    /\ dimsLoaded' = IF single THEN DimNames ELSE dimsLoaded \cup {DimOrder[d]}
    /\ IF ~single /\ MoreDims(d)
       THEN /\ d' = d + 1
            /\ \E len \in lens : n' = len
            /\ surrogate_keys' = EmptyDict
            /\ batch_keys' = EmptyDict
            /\ succeeded' = {}
            /\ nfailed' = 0
            /\ lastOp' = NoOp
            /\ UNCHANGED pc
       ELSE /\ d' = IF single THEN d ELSE 1
            /\ n' = 0
            /\ pc' = "dates"
            /\ UNCHANGED <<surrogate_keys, batch_keys, succeeded, nfailed, lastOp>>
    /\ UNCHANGED <<auxVars, db, tx, ident, run, result, batch_size, factVars>>

\* mutant: a lookup that raises counts as a successful validation
ValidateDateDimensionLenient(store, date_keys, fails) ==
    IF date_keys = {} THEN TRUE
    ELSE IF fails THEN TRUE
    ELSE date_keys \ store.dates = {}

\* validate_date_dimension: True for no keys; False when the SELECT raises;
\* else whether set(date_keys) - existing_keys is empty
ValidateDateDimension(store, date_keys, fails) ==
    IF date_keys = {} THEN TRUE
    ELSE IF fails THEN FALSE
    ELSE date_keys \ store.dates = {}

\* load_all_dimensions calls validate_date_dimension after the agent load
\* and drops what it returns.  fails: the SELECT on dim_date raises.
ValidateDates(date_keys, fails) ==
    /\ pc = "dates"
    /\ arg' = [fn |-> "validate_date_dimension", date_keys |-> date_keys, fails |-> fails]
    /\ ret' = [called |-> TRUE, value |-> ValidateDateDimension(tx, date_keys, fails)]
    /\ pc' = "dims_cleanup"
    /\ UNCHANGED <<riVars, bhVars, db, tx, ident, run, result, batch_size, d, n, i,
                   dimVars, factVars, lastOp>>

\* mutant: the loader leaves its transaction open for the next loader
CommitSkipped(view, committed) == committed

\* connection.commit() in _cleanup_connection: the store becomes what the
\* connection saw
Commit(view, committed) == view

\* _cleanup_connection of the dimension loader: commit succeeds.  next: where
\* the caller goes on ("facts" in run_pipeline, "done" for a bare call).
CommitDims(next) ==
    /\ pc = "dims_cleanup"
    /\ db' = Commit(tx, db)
    /\ pc' = next
    /\ result' = IF next = "done" THEN "ok" ELSE result
    /\ arg' = NoArg
    /\ ret' = NotCalled
    /\ UNCHANGED <<riVars, bhVars, tx, ident, run, batch_size, d, n, i, dimVars, factVars,
                   lastOp>>

\* commit raises: the open transaction is lost, the error leaves
\* load_all_dimensions and the run fails
CommitDimsFail ==
    /\ pc = "dims_cleanup"
    /\ tx' = db
    /\ pc' = "done"
    /\ result' = PipelineOutcome(TRUE)
    /\ lastOp' = FatalOp("commit_failed", IF pc = "claims" THEN "facts" ELSE "dimensions")
    /\ arg' = NoArg
    /\ ret' = NotCalled
    /\ UNCHANGED <<riVars, bhVars, db, ident, run, batch_size, d, n, i, dimVars, factVars>>

\* mutant: the except branch re-raises without rolling back
RollbackSkipped(view, committed) == view

\* connection.rollback(): the connection sees the committed store again
Rollback(view, committed) == committed

\* An exception leaves load_customer_dimension, load_policy_dimension or
\* load_agent_dimension before the first record of its list (the value under
\* the list's key is no list and len() raises): load_all_dimensions rolls
\* back and re-raises, and the cleanup in finally commits what is left.
FatalInDims(single) ==
    /\ pc = "dims"
    /\ i = 0
    /\ tx' = Rollback(tx, db)
    /\ db' = tx'
    /\ pc' = "done"
    /\ result' = PipelineOutcome(TRUE)
    /\ d' = IF single THEN d ELSE 1
    /\ UNCHANGED <<auxVars, ident, run, batch_size, n, i, dimVars, factVars, lastOp>>

\* SELECT claim_id FROM fact_claims
ClaimIdsOf(store) == {r.claim_id : r \in store.facts}

\* _get_existing_claim_ids: the ids read, or set() when the query raises
GetExistingClaimIds(ok) == IF ok THEN ClaimIdsOf(tx) ELSE {}

\* load_all_facts up to the first claim: _connect_to_database succeeds,
\* load_claims_facts zeroes stats and reads the existing claim ids.
StartFacts(ok) ==
    /\ pc = "facts"
    /\ pc' = "claims"
    /\ existing_claims' = GetExistingClaimIds(ok)
    /\ lookup_ok' = ok
    /\ stats' = ZeroStats
    /\ batch_stats' = ZeroStats
    /\ \E len \in 0..MaxClaims : n' = len
    /\ i' = 0
    /\ lastOp' = NoOp
    /\ UNCHANGED <<auxVars, db, tx, ident, run, result, batch_size, d, dimVars>>

\* _connect_to_database of the fact loader raises ConnectionError
ConnectFailFacts ==
    /\ pc = "facts"
    /\ pc' = "done"
    /\ result' = PipelineOutcome(TRUE)
    /\ lastOp' = FatalOp("connect_failed", "facts")
    /\ UNCHANGED <<auxVars, db, tx, ident, run, batch_size, d, n, i, dimVars, factVars>>

\* Python truthiness of an optional integer
Truthy(x) == x # None /\ x # 0

Rejected == [ok |-> FALSE]

\* mutant: the customer lookup reads the claim's policy_id
CustomerKeyByPolicyId(claim, skm) == skm["dim_customer"][claim.policy_id]

\* surrogate_key_mappings.get("dim_customer", {}).get(claim["customer_id"])
CustomerKey(claim, skm) == skm["dim_customer"][claim.customer_id]

\* surrogate_key_mappings.get("dim_policy", {}).get(claim["policy_id"])
PolicyKey(claim, skm) == skm["dim_policy"][claim.policy_id]

\* mutant: an unknown agent falls back to key 1 instead of None
AgentKeyWithDefault(claim, skm) ==
    IF skm["dim_agent"][claim.agent_id] = 0 THEN 1 ELSE skm["dim_agent"][claim.agent_id]

\* surrogate_key_mappings.get("dim_agent", {}).get(claim["agent_id"])
AgentKey(claim, skm) == skm["dim_agent"][claim.agent_id]

\* mutant: the lookups use setdefault and enter unknown business keys
DirectoryAfterLookupsSetsDefault(claim, skm) ==
    [skm EXCEPT !["dim_customer"][claim.customer_id] = IF @ = 0 THEN 1 ELSE @]

\* the Directory after the .get() lookups of _resolve_surrogate_keys: dict.get
\* adds no entry for a business key it does not find
DirectoryAfterLookups(claim, skm) == skm

\* mutant: the closed date is required like the filed date
ResolveSurrogateKeysClosedRequired(claim, skm) ==
    LET customer_key == CustomerKey(claim, skm)
        policy_key == PolicyKey(claim, skm)
        agent_key == AgentKey(claim, skm)
    IN  IF customer_key = 0 THEN Rejected
        ELSE IF policy_key = 0 THEN Rejected
        ELSE IF agent_key = 0 THEN Rejected
        ELSE IF ~Truthy(claim.filed_date_key) THEN Rejected
        ELSE IF ~Truthy(claim.closed_date_key) THEN Rejected
        ELSE [ok |-> TRUE,
              row |-> [claim_id |-> claim.claim_id,
                       customer_key |-> customer_key,
                       policy_key |-> policy_key,
                       agent_key |-> agent_key,
                       filed_date_key |-> claim.filed_date_key,
                       closed_date_key |-> claim.closed_date_key,
                       claim_amount |-> claim.claim_amount,
                       coverage_amount |-> claim.coverage_amount]]

\* _resolve_surrogate_keys
ResolveSurrogateKeys(claim, skm) ==
    LET customer_key == CustomerKey(claim, skm)
        policy_key == PolicyKey(claim, skm)
        agent_key == AgentKey(claim, skm)
    IN  IF customer_key = 0 THEN Rejected
        ELSE IF policy_key = 0 THEN Rejected
        ELSE IF agent_key = 0 THEN Rejected
        ELSE IF ~Truthy(claim.filed_date_key) THEN Rejected
        ELSE [ok |-> TRUE,
              row |-> [claim_id |-> claim.claim_id,
                       customer_key |-> customer_key,
                       policy_key |-> policy_key,
                       agent_key |-> agent_key,
                       filed_date_key |-> claim.filed_date_key,
                       closed_date_key |->
                           IF Truthy(claim.closed_date_key) /\ claim.closed_date_key > 0
                           THEN claim.closed_date_key ELSE None,
                       claim_amount |-> claim.claim_amount,
                       coverage_amount |-> claim.coverage_amount]]

DimKeys(store, dn) == {r.key : r \in store.dims[dn]}

\* The constraints of fact_claims reject the row: UNIQUE claim_id, the
\* foreign keys to the dimensions and to dim_date (closed_date_key nullable).
ViolatesConstraint(store, row) ==
    \/ row.claim_id \in ClaimIdsOf(store)
    \/ row.customer_key \notin DimKeys(store, "dim_customer")
    \/ row.policy_key \notin DimKeys(store, "dim_policy")
    \/ row.agent_key \notin DimKeys(store, "dim_agent")
    \/ row.filed_date_key \notin store.dates
    \/ (row.closed_date_key # None /\ row.closed_date_key \notin store.dates)

\* for key, value in batch_stats.items(): stats[key] += value
\* mutant: the chunk's statistics replace the totals
MergeStatsReplaces(st, bs) == bs

\* for key, value in batch_stats.items(): stats[key] += value
MergeStats(st, bs) == [c \in Counters |-> st[c] + bs[c]]

AfterClaim(bs, chunkEnds) ==
    /\ i' = i + 1
    /\ IF chunkEnds
       THEN /\ stats' = MergeStats(stats, bs)
            /\ batch_stats' = ZeroStats
       ELSE /\ batch_stats' = bs
            /\ UNCHANGED stats

\* mutant: a failure is counted in the except clause on top of the branch
BumpFailureTwice(bs, c) ==
    [bs EXCEPT !["total_processed"] = @ + 1,
               ![c] = @ + (IF c = "failed_validation" THEN 2 ELSE 1)]

\* batch_stats["total_processed"] += 1 and the += 1 of the claim's outcome
Bump(bs, c) == [bs EXCEPT !["total_processed"] = @ + 1, ![c] = @ + 1]

\* mutant: the accepted claim is not added to the set
TrackAcceptedForgets(ec, claim_id) == ec

\* existing_claims.add(claim["claim_id"]) after a successful insert
TrackAccepted(ec, claim_id) == ec \cup {claim_id}

\* A float bound to a DECIMAL(12,2) column is rounded to two decimals, half
\* away from zero.  The model counts floats in thousandths and DECIMAL(12,2)
\* values in hundredths.
ToDecimal2(x) == IF x >= 0 THEN (x + 5) \div 10 ELSE 0 - ((5 - x) \div 10)

\* the row as fact_claims holds it
StoredRow(row) ==
    [row EXCEPT !.claim_amount = ToDecimal2(@), !.coverage_amount = ToDecimal2(@)]

\* mutant: the statement is a MERGE on claim_id, which replaces a stored row
LoadSingleClaimFactMerges(store, row, dbfail) ==
    LET others == [store EXCEPT !.facts = {f \in @ : f.claim_id # row.claim_id}] IN
    IF dbfail \/ ViolatesConstraint(others, row)
    THEN [ok |-> FALSE, raised |-> TRUE, store |-> store]
    ELSE [ok |-> TRUE, raised |-> FALSE, store |-> [others EXCEPT !.facts = @ \cup {StoredRow(row)}]]

\* mutant: the function returns True although the INSERT raised
LoadSingleClaimFactAlwaysTrue(store, row, dbfail) ==
    IF dbfail \/ ViolatesConstraint(store, row)
    THEN [ok |-> TRUE, raised |-> TRUE, store |-> store]
    ELSE [ok |-> TRUE, raised |-> FALSE, store |-> [store EXCEPT !.facts = @ \cup {StoredRow(row)}]]

\* _load_single_claim_fact: the INSERT; a database error is logged and
\* False returned (any other exception ends in the except of the loop, with
\* the same count).  raised: the INSERT raised.
LoadSingleClaimFact(store, row, dbfail) ==
    IF dbfail \/ ViolatesConstraint(store, row)
    THEN [ok |-> FALSE, raised |-> TRUE, store |-> store]
    ELSE [ok |-> TRUE, raised |-> FALSE, store |-> [store EXCEPT !.facts = @ \cup {StoredRow(row)}]]

\* One iteration of the loop of _process_claims_batch.  dbfail: the INSERT
\* of _load_single_claim_fact raises for a reason the model does not see.
ClaimRecord(claim, dbfail) ==
    /\ pc = "claims"
    /\ i < n
    /\ IF claim.claim_id \in existing_claims
       THEN /\ AfterClaim(Bump(batch_stats, "duplicate_claims"), ChunkEnds)
            /\ lastOp' = FactOp("duplicate", claim)
            /\ UNCHANGED <<tx, existing_claims, mappings>>
       ELSE LET res == ResolveSurrogateKeys(claim, mappings) IN
            /\ mappings' = DirectoryAfterLookups(claim, mappings)
            /\ IF ~res.ok
               THEN /\ AfterClaim(Bump(batch_stats, "failed_validation"), ChunkEnds)
                    /\ lastOp' = FactOp("rejected", claim)
                    /\ UNCHANGED <<tx, existing_claims>>
               ELSE LET ins == LoadSingleClaimFact(tx, res.row, dbfail) IN
                    /\ tx' = ins.store
                    /\ lastOp' = FactOp(IF ins.raised THEN "insert_failed" ELSE "loaded", claim)
                    /\ IF ins.ok
                       THEN /\ existing_claims' = TrackAccepted(existing_claims, claim.claim_id)
                            /\ AfterClaim(Bump(batch_stats, "successfully_loaded"), ChunkEnds)
                       ELSE /\ AfterClaim(Bump(batch_stats, "failed_validation"), ChunkEnds)
                            /\ UNCHANGED existing_claims
    /\ UNCHANGED <<auxVars, db, ident, pc, run, result, batch_size, d, n, batch_keys,
                   surrogate_keys, succeeded, nfailed, dimsLoaded, lookup_ok>>

\* load_claims_facts returns; _cleanup_connection of the fact loader commits;
\* run_pipeline validates, reports and returns True
CommitFacts ==
    /\ pc = "claims"
    /\ i = n
    /\ db' = Commit(tx, db)
    /\ pc' = "done"
    /\ result' = PipelineOutcome(FALSE)
    /\ UNCHANGED <<auxVars, tx, ident, run, batch_size, d, n, i, dimVars, factVars, lastOp>>

\* the commit raises: the fact inserts of the run are lost, the run fails
CommitFactsFail ==
    /\ pc = "claims"
    /\ i = n
    /\ tx' = db
    /\ pc' = "done"
    /\ result' = PipelineOutcome(TRUE)
    /\ lastOp' = FatalOp("commit_failed", IF pc = "claims" THEN "facts" ELSE "dimensions")
    /\ UNCHANGED <<auxVars, db, ident, run, batch_size, d, n, i, dimVars, factVars>>

\* The loop iteration reads the date keys of the claim (and reaches the
\* INSERT) only when the claim is no duplicate and its three business keys
\* resolve; for the other claims one value of them stands for all.
ReachesDates(refs) ==
    /\ refs.claim_id \notin existing_claims
    /\ CustomerKey(refs, mappings) # 0
    /\ PolicyKey(refs, mappings) # 0
    /\ AgentKey(refs, mappings) # 0

\* main: sys.exit(0 if success else 1); only the warehouse outlives the process
Exit ==
    /\ pc = "done"
    /\ pc' = "idle"
    /\ result' = "none"
    /\ batch_size' = 1
    /\ n' = 0
    /\ i' = 0
    /\ batch_keys' = EmptyDict
    /\ surrogate_keys' = EmptyDict
    /\ mappings' = EmptyMappings
    /\ existing_claims' = {}
    /\ stats' = ZeroStats
    /\ batch_stats' = ZeroStats
    /\ succeeded' = {}
    /\ nfailed' = 0
    /\ dimsLoaded' = {}
    /\ lookup_ok' = TRUE
    /\ lastOp' = NoOp
    /\ UNCHANGED <<auxVars, db, tx, ident, run, d>>

Next ==
    \/ StartRun({1, 2})
    \/ ConnectFailDims
    \/ \E rec \in PipelineDimRecords, fails \in BOOLEAN : DimRecord(rec, fails, FALSE)
    \/ FatalInDims(FALSE)
    \/ EndDim(FALSE, {1})
    \/ \E keys \in SUBSET DateKeyInputs, fails \in BOOLEAN : ValidateDates(keys, fails)
    \/ CommitDims("facts")
    \/ CommitDimsFail
    \/ \E ok \in BOOLEAN : StartFacts(ok)
    \/ ConnectFailFacts
    \/ \E refs \in ClaimRefs :
          \E rest \in IF ReachesDates(refs) THEN ClaimRest ELSE {NoRest} :
            ClaimRecord([claim_id |-> refs.claim_id, customer_id |-> refs.customer_id,
                         policy_id |-> refs.policy_id, agent_id |-> refs.agent_id,
                         filed_date_key |-> rest.filed_date_key,
                         closed_date_key |-> rest.closed_date_key,
                         claim_amount |-> PlainAmounts.claim_amount,
                         coverage_amount |-> PlainAmounts.coverage_amount], rest.dbfail)
    \/ CommitFacts
    \/ CommitFactsFail
    \/ Exit

Spec == Init /\ [][Next]_vars

NextDim ==
    \/ StartRun(0..MaxRecs)
    \/ ConnectFailDims
    \/ \E rec \in DimRecords, fails \in BOOLEAN, burn \in BOOLEAN :
          DimRecord(rec, fails, burn)
    \/ FatalInDims(TRUE)
    \/ EndDim(TRUE, {0})
    \/ \E keys \in SUBSET DateKeyInputs, fails \in BOOLEAN : ValidateDates(keys, fails)
    \/ CommitDims("done")
    \/ CommitDimsFail
    \/ Exit

SpecDim == InitDim /\ [][NextDim]_vars

\* ------------------------------------------ load_all_facts, call after call
\* a warehouse whose three dimensions hold the row of business key K1
LoadedDims == [dn \in DimNames |-> {[bk |-> "K1", key |-> 1, attr |-> "a"]}]

\* the surrogate_key_mappings a caller passes to load_all_facts: for each
\* dimension the Directory entry of K1, or none
FactMappings ==
    {[dn \in DimNames |-> IF dn \in full THEN [EmptyDict EXCEPT !["K1"] = 1] ELSE EmptyDict] :
        full \in SUBSET DimNames}

InitFacts ==
    /\ db = [dims |-> LoadedDims, dates |-> DateDim, facts |-> {}]
    /\ tx = db
    /\ ident = [dn \in DimNames |-> 1]
    /\ d = 1
    /\ InitProcess

\* a call load_all_facts(claims_facts, surrogate_key_mappings)
CallLoadAllFacts(skm) ==
    /\ pc = "idle"
    /\ run < MaxRuns
    /\ run' = run + 1
    /\ pc' = "facts"
    /\ mappings' = skm
    /\ \E b \in BatchSizes : batch_size' = b
    /\ UNCHANGED <<auxVars, db, tx, ident, result, d, n, i, batch_keys, surrogate_keys,
                   succeeded, nfailed, dimsLoaded, factVars, lastOp>>

NextFacts ==
    \/ \E skm \in FactMappings : CallLoadAllFacts(skm)
    \/ \E ok \in BOOLEAN : StartFacts(ok)
    \/ ConnectFailFacts
    \/ \E refs \in ClaimRefs :
          \E rest \in IF ReachesDates(refs) THEN ClaimRest ELSE {NoRest} :
            ClaimRecord([claim_id |-> refs.claim_id, customer_id |-> refs.customer_id,
                         policy_id |-> refs.policy_id, agent_id |-> refs.agent_id,
                         filed_date_key |-> rest.filed_date_key,
                         closed_date_key |-> rest.closed_date_key,
                         claim_amount |-> PlainAmounts.claim_amount,
                         coverage_amount |-> PlainAmounts.coverage_amount], rest.dbfail)
    \/ CommitFacts
    \/ CommitFactsFail
    \/ Exit

SpecFacts == InitFacts /\ [][NextFacts]_vars

\* ------------------------------------------- functions called on their own
\* a call _resolve_surrogate_keys(claim, surrogate_key_mappings) to come
ResolveArgs ==
    {[fn |-> "_resolve_surrogate_keys",
      claim |-> [claim_id |-> refs.claim_id, customer_id |-> refs.customer_id,
                 policy_id |-> refs.policy_id, agent_id |-> refs.agent_id,
                 filed_date_key |-> fk, closed_date_key |-> ck,
                 claim_amount |-> PlainAmounts.claim_amount,
                 coverage_amount |-> PlainAmounts.coverage_amount],
      skm |-> m] :
        refs \in ClaimRefs, fk \in FiledKeys, ck \in ClosedKeys, m \in FactMappings}

InitResolve ==
    /\ db = [dims |-> LoadedDims, dates |-> DateDim, facts |-> {}]
    /\ tx = db
    /\ ident = [dn \in DimNames |-> 1]
    /\ d = 1
    /\ InitLoaders
    /\ arg \in ResolveArgs
    /\ ret = NotCalled

\* the call returns
CallResolve ==
    /\ arg.fn = "_resolve_surrogate_keys"
    /\ ~ret.called
    /\ ret' = [called |-> TRUE, value |-> ResolveSurrogateKeys(arg.claim, arg.skm)]
    /\ UNCHANGED <<arg, riVars, bhVars, db, tx, ident, pc, run, result, batch_size, d,
                   n, i, dimVars, factVars, lastOp>>

SpecResolve == InitResolve /\ [][CallResolve]_vars

\* ------------------------------------------------------------ transformer
\* agent_id values of raw claims
AgentIdForms == {"", "A17", "AGT003", "AGT012", "AGT7X"}

\* "AGT" in agent_id
ContainsAGT(agent_id) == agent_id \in {"AGT003", "AGT012", "AGT7X"}

\* agent_id.replace("AGT", "")
WithoutAGT(agent_id) ==
    CASE agent_id = "AGT003" -> "003"
      [] agent_id = "AGT012" -> "012"
      [] agent_id = "AGT7X" -> "7X"
      [] OTHER -> agent_id

\* int(text): the number, or ValueError
ParseInt(text) ==
    CASE text = "003" -> [ok |-> TRUE, value |-> 3]
      [] text = "012" -> [ok |-> TRUE, value |-> 12]
      [] OTHER -> [ok |-> FALSE]

\* _assign_agent_region: the region, or the ValueError of int()
AssignAgentRegion(agent_id) ==
    LET parsed == IF ContainsAGT(agent_id) THEN ParseInt(WithoutAGT(agent_id))
                  ELSE [ok |-> TRUE, value |-> 0]
    IN  IF ~parsed.ok THEN [raised |-> TRUE]
        ELSE [raised |-> FALSE,
              value |-> IF parsed.value <= 5 THEN "North"
                        ELSE IF parsed.value <= 10 THEN "South" ELSE "Central"]

\* the loop of prepare_agent_dimension over claims[k..]: agents is
\* agents_dict in insertion order.  The loop has no try: an exception of
\* _assign_agent_region leaves the function.
RECURSIVE AgentLoop(_, _, _)
AgentLoop(claims, k, agents) ==
    IF k > Len(claims) THEN [raised |-> FALSE, value |-> agents]
    ELSE LET agent_id == claims[k].agent_id IN
         IF agent_id = "" \/ \E j \in 1..Len(agents) : agents[j].agent_id = agent_id
         THEN AgentLoop(claims, k + 1, agents)
         ELSE LET region == AssignAgentRegion(agent_id) IN
              IF region.raised THEN [raised |-> TRUE, value |-> <<>>]
              ELSE AgentLoop(claims, k + 1,
                             Append(agents, [agent_id |-> agent_id, region |-> region.value]))

PrepareAgentDimension(claims) == AgentLoop(claims, 1, <<>>)

\* transform_all_for_insurance_schema, the part that reads the claims:
\* prepare_agent_dimension, then the rest; an exception propagates
TransformAll(claims) ==
    LET agents == PrepareAgentDimension(claims) IN
    IF agents.raised THEN [called |-> TRUE, raised |-> TRUE, value |-> <<>>]
    ELSE [called |-> TRUE, raised |-> FALSE, value |-> agents.value]

\* _validate_claim_amount
ValidateClaimAmount(claim_amount, coverage_amount) ==
    claim_amount > 0 /\ claim_amount <= coverage_amount

\* the fact record prepare_claims_facts builds from a claim filed on
\* 2024-03-15 and not closed
FactRecord(claim) ==
    [claim_id |-> claim.claim_id, customer_id |-> claim.customer_id,
     policy_id |-> claim.policy_id, agent_id |-> claim.agent_id,
     filed_date_key |-> 20240315, closed_date_key |-> None,
     claim_amount |-> claim.claim_amount, coverage_amount |-> claim.coverage_amount]

\* the loop of prepare_claims_facts over claims[k..]: a claim whose amounts
\* fail the check is logged and skipped
RECURSIVE FactLoop(_, _, _)
FactLoop(claims, k, facts) ==
    IF k > Len(claims) THEN facts
    ELSE FactLoop(claims, k + 1,
                  IF ValidateClaimAmount(claims[k].claim_amount, claims[k].coverage_amount)
                  THEN Append(facts, FactRecord(claims[k]))
                  ELSE facts)

PrepareClaimsFacts(claims) == [raised |-> FALSE, value |-> FactLoop(claims, 1, <<>>)]

\* the raw claims lists given to the transformer; amounts in thousandths
RawAgentClaims == [claim_id : {"CLM1"}, agent_id : AgentIdForms]
RawAmounts == {0, 4, 5000, 10000}
RawFactClaims ==
    [claim_id : ClaimIds, customer_id : {"K1"}, policy_id : {"K1"}, agent_id : {"K1"},
     claim_amount : RawAmounts, coverage_amount : RawAmounts]
TransformArgs ==
    {[fn |-> f, claims |-> cs] :
        f \in {"prepare_agent_dimension", "transform_all_for_insurance_schema"},
        cs \in UNION {[1..k -> RawAgentClaims] : k \in 0..MaxRaw}}
    \cup
    {[fn |-> "prepare_claims_facts", claims |-> cs] :
        cs \in UNION {[1..k -> RawFactClaims] : k \in 0..MaxRaw}}

\* the Directory of a warehouse with LoadedDims
FullDirectory == [dn \in DimNames |-> [EmptyDict EXCEPT !["K1"] = 1]]

InitTransform ==
    /\ db = [dims |-> LoadedDims, dates |-> DateDim, facts |-> {}]
    /\ tx = db
    /\ ident = [dn \in DimNames |-> 1]
    /\ d = 1
    /\ InitLoaders
    /\ arg \in TransformArgs
    /\ ret = NotCalled

\* a call of prepare_agent_dimension on its own
CallPrepareAgentDimension ==
    /\ arg.fn = "prepare_agent_dimension"
    /\ ~ret.called
    /\ ret' = [called |-> TRUE] @@ PrepareAgentDimension(arg.claims)
    /\ UNCHANGED <<arg, riVars, bhVars, db, tx, ident, pc, run, result, batch_size, d,
                   n, i, dimVars, factVars, lastOp>>

\* run_pipeline up to the end of _transform_data, which logs and re-raises
\* what the transformer raises; run_pipeline then returns False
CallTransformAll ==
    /\ arg.fn = "transform_all_for_insurance_schema"
    /\ ~ret.called
    /\ pc = "idle"
    /\ ret' = TransformAll(arg.claims)
    /\ run' = run + 1
    /\ pc' = IF ret'.raised THEN "done" ELSE "transformed"
    /\ result' = IF ret'.raised THEN PipelineOutcome(TRUE) ELSE result
    /\ UNCHANGED <<arg, riVars, bhVars, db, tx, ident, batch_size, d,
                   n, i, dimVars, factVars, lastOp>>

\* a call of prepare_claims_facts on its own
CallPrepareClaimsFacts ==
    /\ arg.fn = "prepare_claims_facts"
    /\ ~ret.called
    /\ ret' = [called |-> TRUE] @@ PrepareClaimsFacts(arg.claims)
    /\ UNCHANGED <<arg, riVars, bhVars, db, tx, ident, pc, run, result, batch_size, d,
                   n, i, dimVars, factVars, lastOp>>

\* the fact records of prepare_claims_facts are handed to load_all_facts
\* and loaded one by one
NextTransform ==
    \/ CallPrepareAgentDimension
    \/ CallTransformAll
    \/ CallPrepareClaimsFacts
    \/ (ret.called /\ arg.fn = "prepare_claims_facts") /\ CallLoadAllFacts(FullDirectory)
    \/ StartFacts(TRUE) /\ n' = Len(ret.value)
    \/ (pc = "claims" /\ i < n) /\ ClaimRecord(ret.value[i + 1], FALSE)
    \/ CommitFacts

SpecTransform == InitTransform /\ [][NextTransform]_vars

\* ------------------------------------------------- referential integrity

\* the dimension-side key column of each validation query, in query order
RICategories == <<"customers", "policies", "agents", "filed_dates">>

\* SELECT COUNT(*) FROM fact_claims f LEFT JOIN <dim> ON f.<fk> = <dim>.<key>
\* WHERE <dim>.<key> IS NULL
Orphans(store, cat) ==
    Cardinality({f \in store.facts :
        CASE cat = "customers" -> f.customer_key \notin DimKeys(store, "dim_customer")
          [] cat = "policies" -> f.policy_key \notin DimKeys(store, "dim_policy")
          [] cat = "agents" -> f.agent_key \notin DimKeys(store, "dim_agent")
          [] cat = "filed_dates" -> f.filed_date_key \notin store.dates})

\* validate_fact_referential_integrity: the boolean it returns and the orphan
\* counts it logs (a category is logged only with a count above 0); with no
\* usable cursor the first execute raises and the except branch returns False
ValidateFactReferentialIntegrity(cur, store) ==
    IF cur # "open"
    THEN [called |-> TRUE, all_valid |-> FALSE,
          reported |-> [k \in 1..Len(RICategories) |-> 0]]
    ELSE [called |-> TRUE,
          all_valid |-> \A k \in 1..Len(RICategories) : ~(Orphans(store, RICategories[k]) > 0),
          reported |-> [k \in 1..Len(RICategories) |-> Orphans(store, RICategories[k])]]

\* fact_claims rows of a warehouse whose foreign keys were not enforced
RIFactRows ==
    [claim_id : ClaimIds, customer_key : 1..2, policy_key : 1..2, agent_key : 1..2,
     filed_date_key : {20240315, 20990101},
     closed_date_key : {None, 20240315, 20990101}]

\* the sets of at most k fact rows with distinct claim ids (claim_id UNIQUE)
RECURSIVE RIFactSets(_)
RIFactSets(k) ==
    IF k = 0 THEN {{}}
    ELSE LET smaller == RIFactSets(k - 1)
         IN  smaller \cup
             {x \cup {r} : <<x, r>> \in
                 {y \in smaller \X RIFactRows :
                     \A q \in y[1] : q.claim_id # y[2].claim_id}}

\* warehouses for the validator: each dimension empty or with the row of
\* key 1, at most MaxFactRows fact rows
RIStores ==
    {[dims |-> [dn \in DimNames |->
                   IF dn \in full THEN {[bk |-> "K1", key |-> 1, attr |-> "a"]} ELSE {}],
      dates |-> DateDim,
      facts |-> fs] :
        full \in SUBSET DimNames,
        fs \in RIFactSets(MaxFactRows)}

InitRI ==
    /\ db \in RIStores
    /\ tx = db
    /\ ident = [dn \in DimNames |-> 1]
    /\ d = 1
    /\ InitProcess

\* load_all_facts([], mappings): connects, loads nothing, and its cleanup
\* commits and closes the cursor and the connection
RILoadNoFacts ==
    /\ cursor' = "closed"
    /\ ri' = NoResult
    /\ UNCHANGED <<bhVars, insVars>>

\* a caller runs _connect_to_database() on the loader itself
RIConnect ==
    /\ cursor # "open"
    /\ cursor' = "open"
    /\ ri' = NoResult
    /\ UNCHANGED <<bhVars, insVars>>

\* a call of validate_fact_referential_integrity
RIValidate ==
    /\ ri' = ValidateFactReferentialIntegrity(cursor, tx)
    /\ UNCHANGED <<cursor, bhVars, insVars>>

NextRI ==
    \/ RILoadNoFacts
    \/ RIConnect
    \/ RIValidate

SpecRI == InitRI /\ [][NextRI]_vars

\* --------------------------------------------------------------- BookHaven

\* position of id e in the frame df (rows are inserted in frame order)
RowNumber(df, e) == Cardinality({x \in df : x <= e})

\* df.to_sql(table_name, conn, if_exists='append') into a table whose key
\* column is filled by the database: the rows get the next key values
AppendRows(df, last) == {[id |-> e, key |-> last + RowNumber(df, e)] : e \in df}

\* etl_pipeline.main starts; extraction, cleaning, the first transformation
\* and validation succeed
BHStart ==
    /\ bh_pc = "idle"
    /\ bh_runs < MaxRuns
    /\ bh_runs' = bh_runs + 1
    /\ bh_pc' = "dims"
    /\ bh_k' = 1
    /\ UNCHANGED <<bh_dims, bh_ident, bh_orders, bh_facts, bh_inserted, bh_outcome,
                   bh_failed, riVars, insVars>>

\* One call of load_dimension_table from main.  fails: an exception inside
\* the with engine.begin() block (connect, get_table_columns, TRUNCATE,
\* DELETE or to_sql): the transaction rolls back, the except branch logs and
\* the function returns None.  Otherwise the transaction truncates
\* fact_book_sales, deletes the table's rows, appends the frame and commits.
BHLoadDimension(df, fails) ==
    /\ bh_pc = "dims"
    /\ bh_ident[bh_k] + Cardinality(df) <= MaxIdent
    /\ IF fails
       THEN /\ bh_inserted' = [bh_inserted EXCEPT ![bh_k] = None]
            /\ bh_failed' = TRUE
            /\ UNCHANGED <<bh_dims, bh_ident, bh_facts>>
       ELSE /\ bh_facts' = {}
            /\ bh_dims' = [bh_dims EXCEPT ![bh_k] = AppendRows(df, bh_ident[bh_k])]
            /\ bh_ident' = [bh_ident EXCEPT ![bh_k] = @ + Cardinality(df)]
            /\ bh_inserted' = [bh_inserted EXCEPT ![bh_k] = Cardinality(df)]
            /\ UNCHANGED bh_failed
    /\ IF bh_k < Len(BHTables)
       THEN bh_k' = bh_k + 1 /\ UNCHANGED bh_pc
       ELSE bh_k' = 1 /\ bh_pc' = "transform_orders"
    /\ UNCHANGED <<bh_runs, bh_orders, bh_outcome, riVars, insVars>>

\* get_sql_server_conn_str, or sqlalchemy.create_engine before the try of a
\* load function, raises: main logs and raises Exception("sql load error")
BHLoadRaises ==
    /\ bh_pc \in {"dims", "fact"}
    /\ bh_pc' = "done"
    /\ bh_outcome' = "sql load error"
    /\ UNCHANGED <<bh_runs, bh_k, bh_dims, bh_ident, bh_orders, bh_facts,
                   bh_inserted, bh_failed, riVars, insVars>>

\* transform_orders: the orders (one order, of book 1) left-merged with the
\* dimension tables read back from the warehouse; a book without a row
\* leaves book_key empty.  ok = FALSE: the step raises "transform error".
BHTransformOrders(ok) ==
    /\ bh_pc = "transform_orders"
    /\ IF ok
       THEN /\ bh_orders' =
                 IF \E r \in bh_dims[1] : r.id = 1
                 THEN {[order_id |-> 1, book_key |-> r.key] : r \in {q \in bh_dims[1] : q.id = 1}}
                 ELSE {[order_id |-> 1, book_key |-> None]}
            /\ bh_pc' = "fact"
            /\ UNCHANGED bh_outcome
       ELSE /\ bh_pc' = "done"
            /\ bh_outcome' = "transform error"
            /\ UNCHANGED bh_orders
    /\ UNCHANGED <<bh_runs, bh_k, bh_dims, bh_ident, bh_facts, bh_inserted,
                   bh_failed, riVars, insVars>>

\* load_fact_table: TRUNCATE and append in one transaction, or (fails) an
\* exception inside the with block, logged, None returned
BHLoadFact(fails) ==
    /\ bh_pc = "fact"
    /\ bh_pc' = "report"
    /\ IF fails
       THEN /\ bh_inserted' = [bh_inserted EXCEPT ![Len(BHTables) + 1] = None]
            /\ bh_failed' = TRUE
            /\ UNCHANGED bh_facts
       ELSE /\ bh_facts' = bh_orders
            /\ bh_inserted' = [bh_inserted EXCEPT ![Len(BHTables) + 1] = Cardinality(bh_orders)]
            /\ UNCHANGED bh_failed
    /\ UNCHANGED <<bh_runs, bh_k, bh_dims, bh_ident, bh_orders, bh_outcome,
                   riVars, insVars>>

\* main logs the FINAL DATA METRICS and the quality reports and returns
BHReport ==
    /\ bh_pc = "report"
    /\ bh_pc' = "done"
    /\ bh_outcome' = "completed"
    /\ UNCHANGED <<bh_runs, bh_k, bh_dims, bh_ident, bh_orders, bh_facts,
                   bh_inserted, bh_failed, riVars, insVars>>

\* the process ends; only the warehouse remains
BHExit ==
    /\ bh_pc = "done"
    /\ bh_pc' = "idle"
    /\ bh_k' = 1
    /\ bh_orders' = {}
    /\ bh_inserted' = [k \in 1..(Len(BHTables) + 1) |-> Unset]
    /\ bh_outcome' = "none"
    /\ bh_failed' = FALSE
    /\ UNCHANGED <<bh_runs, bh_dims, bh_ident, bh_facts, riVars, insVars>>

NextBook ==
    \/ BHStart
    \/ \E df \in BHFrames(BHTables[bh_k]), fails \in BOOLEAN : BHLoadDimension(df, fails)
    \/ BHLoadRaises
    \/ \E ok \in BOOLEAN : BHTransformOrders(ok)
    \/ \E fails \in BOOLEAN : BHLoadFact(fails)
    \/ BHReport
    \/ BHExit

SpecBook == Init /\ [][NextBook]_vars

TypeOK ==
    /\ pc \in {"idle", "transformed", "dims", "dates", "dims_cleanup", "facts", "claims", "done"}
    /\ run \in 0..MaxRuns

\* ------------------------------------------------------------------ claims

KeysOf(store, dn, bk) == {r.key : r \in Existing(store, dn, bk)}
\* the step is one iteration of a dimension record loop
IsDimRecordStep == pc = "dims" /\ i' = i + 1
\* the step is one iteration of the claims loop
IsClaimStep == pc = "claims" /\ i' = i + 1

\* C1: a business key that has a committed row keeps exactly that one row and
\* that surrogate key through every later step of every later load, in the
\* committed store and in the view of the loading connection; and a key that
\* a load records for a business key is the key of that business key's row.
C1_IdempotentKey ==
    [][/\ \A dn \in DimNames : \A bk \in BKeys :
             Existing(db, dn, bk) # {} =>
                /\ KeysOf(db', dn, bk) = KeysOf(db, dn, bk)
                /\ KeysOf(tx', dn, bk) = KeysOf(db, dn, bk)
                /\ Cardinality(Existing(db', dn, bk)) = 1
                /\ Cardinality(Existing(tx', dn, bk)) = 1
       /\ IsDimRecordStep =>
             \A bk \in BKeys :
                LET key == Update(surrogate_keys', batch_keys')[bk]
                IN  key # 0 => KeysOf(tx', DimOrder[d], bk) = {key}]_vars

\* C1 witness: a second load has updated a committed business key with a
\* changed attribute value.
C1_Witness ==
    /\ run = 2
    /\ pc = "dims"
    /\ lastOp.kind = "updated"
    /\ \E r \in db.dims[lastOp.dim] :
          r.bk = lastOp.bk /\ r.attr # lastOp.attr /\ r.key = lastOp.key

\* C2: when a dimension load returns, its mapping has an entry for every
\* business key that was inserted or updated in that load.
C2_DirectoryComplete ==
    pc = "dims_cleanup" => succeeded \subseteq DictKeys(mappings[DimOrder[d]])

\* C3: a well-formed record whose business key already has a row overwrites
\* the row's attributes and keeps its surrogate key.
C3_Overwrite ==
    [][(IsDimRecordStep /\ lastOp'.valid
          /\ Existing(tx, DimOrder[d], lastOp'.bk) # {}) =>
             /\ \A r \in Existing(tx', DimOrder[d], lastOp'.bk) : r.attr = lastOp'.attr
             /\ KeysOf(tx', DimOrder[d], lastOp'.bk) = KeysOf(tx, DimOrder[d], lastOp'.bk)]_vars

UniqueKeys(store) ==
    \A dn \in DimNames : \A r1, r2 \in store.dims[dn] :
        (r1.key = r2.key \/ r1.bk = r2.bk) => r1 = r2

\* C4: no two rows of a dimension share a surrogate key or a business key,
\* and the key generated for a new business key is greater than every key the
\* dimension has handed out before.
C4_UniqueKeys ==
    [][/\ UniqueKeys(tx') /\ UniqueKeys(db')
       /\ \A dn \in DimNames : \A r \in tx'.dims[dn] :
             Existing(tx, dn, r.bk) = {} /\ Existing(db, dn, r.bk) = {} =>
                /\ r.key > ident[dn]
                /\ \A q \in tx.dims[dn] \cup db.dims[dn] : r.key > q.key]_vars

\* C4 witness: a chunk of two records that updated the existing business key
\* and then inserted a new one, which got a greater key.
C4_Witness ==
    /\ pc = "dims"
    /\ batch_size = 2
    /\ i = 2
    /\ lastOp.kind = "inserted"
    /\ succeeded = BKeys
    /\ \E r \in db.dims[lastOp.dim] : r.bk # lastOp.bk /\ r.key < lastOp.key

\* the value of a counter so far in this load: the merged chunks and the
\* chunk in progress
Count(c) == stats[c] + batch_stats[c]
OnlyCounts(c) ==
    \A k \in Counters :
        Count(k)' = Count(k) + (IF k \in {c, "total_processed"} THEN 1 ELSE 0)
MissingRef(op) ==
    \/ mappings["dim_customer"][op.customer_id] = 0
    \/ mappings["dim_policy"][op.policy_id] = 0
    \/ mappings["dim_agent"][op.agent_id] = 0
\* claim ids accepted earlier in this load
Accepted == ClaimIdsOf(tx) \ ClaimIdsOf(db)

\* C5: every row that enters fact_claims is the claim of that loop iteration,
\* carries the Directory's keys for the claim's customer_id, policy_id and
\* agent_id (all three present), and its claim_id had no row before.
C5_FactPersistence ==
    [][\A r \in tx'.facts \ tx.facts :
          /\ IsClaimStep
          /\ r.claim_id = lastOp'.claim_id
          /\ r.customer_key = mappings["dim_customer"][lastOp'.customer_id]
          /\ r.policy_key = mappings["dim_policy"][lastOp'.policy_id]
          /\ r.agent_key = mappings["dim_agent"][lastOp'.agent_id]
          /\ ~MissingRef(lastOp')
          /\ r.claim_id \notin ClaimIdsOf(tx) \cup ClaimIdsOf(db)]_vars

\* C5 witness: a claim was inserted whose customer and policy keys differ.
C5_Witness ==
    /\ pc = "claims"
    /\ lastOp.kind = "loaded"
    /\ \E r \in tx.facts \ db.facts :
          r.claim_id = lastOp.claim_id /\ r.customer_key # r.policy_key

\* C6 as stated: a claim with a business key that the Directory lacks is not
\* inserted, counts once under failed_validation and under no other outcome
\* counter, and the loop goes on.
C6_MissingRefRejected ==
    [][(IsClaimStep /\ MissingRef(lastOp')) =>
          /\ tx' = tx
          /\ OnlyCounts("failed_validation")
          /\ pc' = "claims"]_vars

\* C6 amended: the same for a claim whose claim_id is not in existing_claims.
C6_MissingRefRejectedUnlessDuplicate ==
    [][(IsClaimStep /\ MissingRef(lastOp') /\ lastOp'.claim_id \notin existing_claims) =>
          /\ tx' = tx
          /\ OnlyCounts("failed_validation")
          /\ pc' = "claims"]_vars

\* C6 witness: the first claim of a two-claim chunk was rejected for a
\* missing reference.
C6_Witness ==
    /\ pc = "claims"
    /\ lastOp.kind = "rejected"
    /\ MissingRef(lastOp)
    /\ batch_stats["failed_validation"] = 1
    /\ i < n

\* C7: a claim whose claim_id has a committed row counts as a duplicate and
\* leaves fact_claims as it is.
C7_CrossRunDuplicate ==
    [][(IsClaimStep /\ lastOp'.claim_id \in ClaimIdsOf(db)) =>
          /\ Count("duplicate_claims")' = Count("duplicate_claims") + 1
          /\ tx'.facts = tx.facts]_vars

\* C8: a claim whose claim_id already has a row (committed, or accepted
\* earlier in this load) counts under duplicate_claims only, never under
\* failed_validation.
C8_DuplicateCounterDistinct ==
    [][(IsClaimStep /\ lastOp'.claim_id \in ClaimIdsOf(tx)) =>
          OnlyCounts("duplicate_claims")]_vars

UniqueClaimIds(store) ==
    \A r1, r2 \in store.facts : r1.claim_id = r2.claim_id => r1 = r2

\* C9: existing_claims only grows during a load and holds every claim id
\* accepted in it; fact_claims never has two rows for a claim id; a claim
\* whose id was accepted earlier in the load counts as a duplicate only.
C9_IntraRunDuplicate ==
    [][/\ UniqueClaimIds(tx')
       /\ IsClaimStep =>
            /\ existing_claims \subseteq existing_claims'
            /\ (ClaimIdsOf(tx') \ ClaimIdsOf(db')) \subseteq existing_claims'
            /\ lastOp'.claim_id \in Accepted =>
                  /\ tx' = tx
                  /\ OnlyCounts("duplicate_claims")]_vars

\* C9 witness: with chunks of one claim and a failed lookup of the existing
\* ids, the second occurrence of a claim id was counted as a duplicate.
C9_Witness ==
    /\ pc = "claims"
    /\ batch_size = 1
    /\ ~lookup_ok
    /\ lastOp.kind = "duplicate"
    /\ lastOp.claim_id \in Accepted
    /\ stats["successfully_loaded"] = 1
    /\ stats["duplicate_claims"] = 1

\* C10: after a dimension load in which exactly one record failed, the
\* mapping has an entry, and the table a row, for the business key of every
\* other record.
C10_PartialBatch ==
    (pc = "dims_cleanup" /\ nfailed = 1) =>
        \A bk \in succeeded :
            /\ mappings[DimOrder[d]][bk] # 0
            /\ KeysOf(tx, DimOrder[d], bk) = {mappings[DimOrder[d]][bk]}

\* C11: while load_all_dimensions runs, the committed store changes in one
\* step only, the commit of the cleanup after all three loads, and becomes
\* the connection's view; a call that ends in a fatal error leaves the
\* committed store as it was before the call and no upsert of it visible.
C11_DimensionAtomicity ==
    [][(pc = "dims" \/ pc = "dims_cleanup") =>
          /\ db' # db => (pc = "dims_cleanup" /\ db' = tx /\ result' # "failed")
          /\ result' = "failed" => (db' = db /\ tx' = db)
          /\ (pc = "dims_cleanup" /\ result' # "failed") => (db' = tx)]_vars

\* C11 witness: the call failed while loading the agents, after it had
\* inserted a customer and a policy, and the warehouse is still empty.
C11_Witness ==
    /\ pc = "done"
    /\ result = "failed"
    /\ dimsLoaded = {"dim_customer", "dim_policy"}
    /\ ident["dim_customer"] = 1
    /\ ident["dim_policy"] = 1
    /\ db = EmptyStore
    /\ tx = EmptyStore

\* C12: a claim is resolved or inserted only in the fact phase, which a run
\* enters only from the commit of a dimension load in which the loads of all
\* three dimension tables returned; the fact phase works with the mappings
\* that load left; a run whose dimension load fails goes to its end without
\* a fact phase.
C12_PhaseOrdering ==
    [][/\ (pc' = "facts" \/ pc' = "claims") =>
             /\ dimsLoaded' = DimNames
             /\ result' # "failed"
             /\ mappings' = mappings
       /\ (pc' = "facts" /\ pc # "facts") => (pc = "dims_cleanup" /\ db' = tx)
       /\ (IsClaimStep \/ tx'.facts # tx.facts) => (pc = "claims" /\ dimsLoaded = DimNames)
       /\ ((pc = "idle" \/ pc = "dims" \/ pc = "dims_cleanup") /\ result' = "failed") =>
             (pc' = "done" /\ tx'.facts = db.facts)
       /\ pc = "done" => (pc' = "idle" /\ tx'.facts = tx.facts)]_vars

\* C12 witness: a claim has been inserted after the three loads returned
\* mappings that resolve it.
C12_Witness ==
    /\ pc = "claims"
    /\ dimsLoaded = DimNames
    /\ lastOp.kind = "loaded"
    /\ \A dn \in DimNames : mappings[dn]["K1"] # 0

\* the fact rows with a reference that matches no dimension row, over every
\* foreign-key column of fact_claims
HasOrphan(store) ==
    \E f \in store.facts :
        \/ f.customer_key \notin DimKeys(store, "dim_customer")
        \/ f.policy_key \notin DimKeys(store, "dim_policy")
        \/ f.agent_key \notin DimKeys(store, "dim_agent")
        \/ f.filed_date_key \notin DateDim
        \/ (f.closed_date_key # None /\ f.closed_date_key \notin DateDim)

\* C13: a call of the validator after fact loading returns all_valid exactly
\* when each of its categories has no orphan row, and reports the orphan
\* count of every category.
C13_ValidatorCorrect ==
    (ri.called /\ cursor = "closed") =>
        /\ ri.all_valid <=> \A k \in 1..Len(RICategories) : Orphans(tx, RICategories[k]) = 0
        /\ \A k \in 1..Len(RICategories) : ri.reported[k] = Orphans(tx, RICategories[k])

\* C14: a step in which a load phase fails to connect or to commit ends the
\* run: nothing of the phase is committed, the run goes to its end with
\* run_pipeline returning False, main exits with a status other than 0, and
\* from there the process only exits.
C14_FatalPropagation ==
    [][/\ (lastOp' # lastOp /\ lastOp'.kind \in {"connect_failed", "commit_failed"}) =>
             /\ pc' = "done"
             /\ result' = "failed"
             /\ ExitStatus(result') # 0
             /\ db' = db
             /\ tx' = db
       /\ (pc = "done" /\ result = "failed") =>
             (pc' = "idle" /\ db' = db /\ tx' = tx)]_vars

\* C14 witness: the commit of the fact loader failed after a claim had been
\* inserted; the claim is gone and the run has failed.
C14_Witness ==
    /\ pc = "done"
    /\ lastOp = FatalOp("commit_failed", "facts")
    /\ result = "failed"
    /\ stats["successfully_loaded"] = 1
    /\ tx.facts = {}

\* C15: in a run in which a load function has caught an exception, main has
\* ended with "sql load error"; it is not on its way to the fact load or the
\* final metrics.
C15_BookHavenFatal ==
    bh_failed => (bh_pc = "done" /\ bh_outcome = "sql load error")

\* C16: a row of a BookHaven dimension table stays in its table, with its
\* key, through every step of every run.
C16_DimensionRowsKept ==
    [][\A k \in 1..Len(BHTables) : bh_dims[k] \subseteq bh_dims'[k]]_vars

\* C17: the totals of load_claims_facts change only when a chunk ends, and
\* then each grows by the chunk's counter: after the step the total is the
\* old total plus what the chunk had counted plus this claim; every claim
\* counts once in total_processed, so that at the end of the list
\* total_processed is the length of the list.
C17_StatsSummed ==
    [][IsClaimStep =>
          /\ Count("total_processed")' = Count("total_processed") + 1
          /\ \A c \in Counters :
                /\ Count(c)' - Count(c) \in {0, 1}
                /\ IF ChunkEnds
                   THEN batch_stats'[c] = 0 /\ stats'[c] = Count(c)'
                   ELSE stats'[c] = stats[c]
          /\ (i' = n) => (stats'["total_processed"] = n)]_vars

\* C17 witness: two chunks of one claim each have been merged, one with a
\* loaded claim and one with a rejected claim.
C17_Witness ==
    /\ pc = "claims"
    /\ batch_size = 1
    /\ n = 2
    /\ i = n
    /\ stats["total_processed"] = 2
    /\ stats["successfully_loaded"] = 1
    /\ stats["failed_validation"] = 1

\* the mapping a dimension load has built so far, chunk in progress included
EffectiveKeys ==
    [k \in BKeys |-> IF batch_keys[k] # 0 THEN batch_keys[k] ELSE surrogate_keys[k]]
\* the counter under which an iteration of the claims loop counts its claim
OutcomeCounter(kind) ==
    CASE kind = "loaded" -> "successfully_loaded"
      [] kind = "duplicate" -> "duplicate_claims"
      [] OTHER -> "failed_validation"

\* C18: what a load has built after a record follows from what it had built
\* before and from the record's outcome alone, wherever the chunks end: the
\* mapping gains the record's key (or nothing), each counter the record's
\* count, existing_claims the accepted claim id; and at the end of the list
\* the returned mapping and statistics are the ones so built.
C18_ChunkBoundaries ==
    [][/\ IsDimRecordStep =>
             /\ EffectiveKeys' =
                   IF \/ lastOp'.kind = "inserted"
                      \/ (lastOp'.kind = "updated" /\ RecordsKeyOnUpdate(lastOp'.dim))
                   THEN [EffectiveKeys EXCEPT ![lastOp'.bk] = lastOp'.key]
                   ELSE EffectiveKeys
             /\ (i' = n) => (surrogate_keys' = EffectiveKeys')
       /\ IsClaimStep =>
             /\ \A c \in Counters :
                   Count(c)' = Count(c) +
                      (IF c = "total_processed" \/ c = OutcomeCounter(lastOp'.kind)
                       THEN 1 ELSE 0)
             /\ existing_claims' = existing_claims \cup
                   (IF lastOp'.kind = "loaded" THEN {lastOp'.claim_id} ELSE {})
             /\ (i' = n) => (\A c \in Counters : stats'[c] = Count(c)')]_vars

\* C18 witness: with chunks of one record, the first run's customer list had
\* the same customer_id in its first and in its second chunk, and the
\* mapping still holds the key of the first.
C18_Witness ==
    /\ pc = "dims"
    /\ run = 1
    /\ d = 1
    /\ batch_size = 1
    /\ i = 2
    /\ lastOp.kind = "updated"
    /\ surrogate_keys[lastOp.bk] = lastOp.key

\* C19: an iteration whose INSERT raises leaves fact_claims and
\* existing_claims as they were, the claim's id outside existing_claims,
\* counts the claim once, under failed_validation, and stays in the loop.
C19_InsertFailure ==
    [][(IsClaimStep /\ lastOp'.kind = "insert_failed") =>
          /\ tx' = tx
          /\ existing_claims' = existing_claims
          /\ lastOp'.claim_id \notin existing_claims'
          /\ OnlyCounts("failed_validation")
          /\ pc' = "claims"
          /\ n' = n]_vars

\* C19 witness: the INSERT of the first claim of a run raised, the claim is
\* counted under failed_validation and not recorded, and a claim is left to do.
C19_Witness ==
    /\ pc = "claims"
    /\ lastOp.kind = "insert_failed"
    /\ i < n
    /\ Count("failed_validation") = 1
    /\ Count("successfully_loaded") = 0
    /\ lastOp.claim_id \notin existing_claims
    /\ tx.facts = {}

C21_ValidationInRun ==
    (pc = "done" /\ result = "ok") => ri.called

\* C22: no step removes or changes a committed row of fact_claims, neither
\* in the store nor in the view of the fact loader's connection: the
\* committed rows, and so the committed claim ids, only grow.
C22_FactsImmutable ==
    [][/\ db.facts \subseteq db'.facts
       /\ db.facts \subseteq tx'.facts
       /\ ClaimIdsOf(db) \subseteq ClaimIdsOf(db')]_vars

\* C22 witness: a later call inserted a claim next to the committed row of
\* an earlier call.
C22_Witness ==
    /\ run = 2
    /\ pc = "claims"
    /\ lastOp.kind = "loaded"
    /\ db.facts # {}
    /\ db.facts \subseteq tx.facts
    /\ Cardinality(tx.facts) = 2

\* the three business keys of the claim have Directory entries
RefsResolve(c, skm) ==
    CustomerKey(c, skm) # 0 /\ PolicyKey(c, skm) # 0 /\ AgentKey(c, skm) # 0

\* C23: of the claims whose three business keys resolve, exactly those with
\* a filed_date_key that is neither None nor 0 are resolved, whatever their
\* closed_date_key; a closed_date_key that is None, 0 or negative resolves to
\* null and a positive one to itself.
C23_OptionalClosedDate ==
    (ret.called /\ arg.fn = "_resolve_surrogate_keys" /\ RefsResolve(arg.claim, arg.skm)) =>
        LET filed == arg.claim.filed_date_key
            closed == arg.claim.closed_date_key
        IN  /\ ret.value.ok <=> (filed # None /\ filed # 0)
            /\ ret.value.ok =>
                  /\ ret.value.row.filed_date_key = filed
                  /\ ret.value.row.closed_date_key =
                        IF closed = None \/ closed <= 0 THEN None ELSE closed

\* C23 witness: a claim with no closed date was resolved, with a null
\* closed_date_key.
C23_Witness ==
    /\ ret.called
    /\ arg.fn = "_resolve_surrogate_keys"
    /\ arg.claim.closed_date_key = None
    /\ ret.value.ok
    /\ ret.value.row.closed_date_key = None
    /\ ret.value.row.filed_date_key = 20240315

\* C24: while the fact loader runs (from its connection to its commit or
\* rollback) no step changes an entry of surrogate_key_mappings, a row of a
\* dimension table or an identity counter.
C24_DirectoryReadOnly ==
    [][(pc = "facts" \/ pc = "claims") =>
          /\ mappings' = mappings
          /\ tx'.dims = tx.dims
          /\ db'.dims = db.dims
          /\ ident' = ident]_vars

\* C24 witness: a claim with an unknown agent was rejected and a claim was
\* then loaded, with the Directory of the dimension phase in place.
C24_Witness ==
    /\ pc = "claims"
    /\ lastOp.kind = "loaded"
    /\ Count("failed_validation") = 1
    /\ Count("successfully_loaded") = 1
    /\ \A dn \in DimNames : DictKeys(mappings[dn]) = {"K1"}
    /\ \A dn \in DimNames : Cardinality(tx.dims[dn]) = 1

\* C25: while a dimension is loaded, a business key that the load has mapped
\* to a surrogate key stays mapped to that key through every later record
\* and chunk merge, and is handed to the Directory with that key; an entry
\* of the Directory is never given another value.
C25_NoOverwrite ==
    [][pc = "dims" =>
          /\ IsDimRecordStep =>
                \A bk \in BKeys :
                    EffectiveKeys[bk] # 0 =>
                        /\ EffectiveKeys'[bk] = EffectiveKeys[bk]
                        /\ surrogate_keys[bk] # 0 => surrogate_keys'[bk] = surrogate_keys[bk]
          /\ (i = n /\ i' = 0) =>
                \A bk \in BKeys :
                    EffectiveKeys[bk] # 0 => mappings'[DimOrder[d]][bk] = EffectiveKeys[bk]
          /\ \A dn \in DimNames \ {DimOrder[d]} : mappings'[dn] = mappings[dn]]_vars

\* C25 witness: an agent inserted in one chunk came again in the next chunk
\* of the same list, and is mapped to the key of the insert.
C25_Witness ==
    /\ pc = "dims"
    /\ run = 1
    /\ DimOrder[d] = "dim_agent"
    /\ batch_size = 1
    /\ i = 2
    /\ lastOp.kind = "updated"
    /\ surrogate_keys[lastOp.bk] = 1
    /\ lastOp.key = 1

\* C26: no record loop of the transformer lets an exception out: a call of
\* prepare_agent_dimension, or of the whole transformation, on a list with
\* malformed records returns, and the run does not fail.
C26_LocalRecovery ==
    (ret.called /\ arg.fn \in {"prepare_agent_dimension",
                                "transform_all_for_insurance_schema"}) =>
        (~ret.raised /\ result # "failed")

\* C27: prepare_claims_facts returns, in order, the fact records of exactly
\* the claims with 0 < claim_amount <= coverage_amount, without raising; and
\* every row of fact_claims has 0 < claim_amount <= coverage_amount.
C27_ClaimAmountRule ==
    /\ (ret.called /\ arg.fn = "prepare_claims_facts") =>
          /\ ~ret.raised
          /\ ret.value =
                LET valid(c) == c.claim_amount > 0 /\ c.claim_amount <= c.coverage_amount
                    kept == SelectSeq(arg.claims, valid)
                IN  [k \in 1..Len(kept) |-> FactRecord(kept[k])]
    /\ \A r \in tx.facts : 0 < r.claim_amount /\ r.claim_amount <= r.coverage_amount

C29_StatsConservation ==
    /\ stats["total_processed"] =
          stats["successfully_loaded"] + stats["failed_validation"] + stats["duplicate_claims"]
    /\ batch_stats["total_processed"] =
          batch_stats["successfully_loaded"] + batch_stats["failed_validation"]
             + batch_stats["duplicate_claims"]
    /\ pc = "claims" => Count("total_processed") = i

\* C29 witness: a call has counted a duplicate of an earlier call's claim
\* and a claim whose INSERT raised.
C29_Witness ==
    /\ run = 2
    /\ pc = "claims"
    /\ i = 2
    /\ lastOp.kind = "insert_failed"
    /\ Count("duplicate_claims") = 1
    /\ Count("failed_validation") = 1
    /\ Count("total_processed") = 2

\* C30: the dimension loader's commit makes the run's dimension rows part of
\* the store before the fact loader connects, so that through the fact phase
\* the store holds them; a fatal error of the fact phase fails the run,
\* leaves the store as that commit left it and drops the fact rows the run
\* had inserted.
C30_TwoTransactions ==
    [][/\ (pc = "dims_cleanup" /\ pc' = "facts") => (db' = tx /\ tx' = tx)
       /\ (pc = "facts" \/ pc = "claims") =>
             /\ db.dims = tx.dims
             /\ db'.dims = db.dims
             /\ result' = "failed" =>
                   /\ pc' = "done"
                   /\ lastOp'.phase = "facts"
                   /\ db' = db
                   /\ tx' = db]_vars

\* C30 witness: in the first run the dimension rows were committed, a claim
\* was inserted, and the fact loader's commit failed: the run has failed,
\* the store holds the dimension rows and no fact row.
C30_Witness ==
    /\ run = 1
    /\ pc = "done"
    /\ result = "failed"
    /\ lastOp = FatalOp("commit_failed", "facts")
    /\ stats["successfully_loaded"] = 1
    /\ \A dn \in DimNames : db.dims[dn] # {}
    /\ db.facts = {}
    /\ tx = db
====
